---- MODULE Spec2Model ----
(***************************************************************************)
(* Model of python/neopixel3.py: the Color packing class and the           *)
(* Adafruit_NeoPixel wrapper around the _rpi_ws281x driver binding.        *)
(* One controller object, one driver handle ("h1") with two channel slots. *)
(***************************************************************************)
EXTENDS Integers, Sequences, FiniteSets, TLC

VARIABLES
    proc,        \* the Python process: "running", "exited" (atexit done), "crashed"
    ref,         \* the caller holds the controller (__init__ returned normally)
    registered,  \* atexit.register(self._cleanup) has run
    self,        \* the controller's instance attributes: attribute name -> value
                 \* (_leds is "h1" or "None", _channel is "chan0", "chan1" or "None")
    drv,         \* the driver-side ws2811_t structure behind handle "h1"
    lastOp,      \* what the last wrapper operation was and how it ended
    lastCalls,   \* the ws.* calls the last wrapper operation made, in order
    hist,        \* history: the constructor's num and channel, and whether
                 \* some earlier show() raised
    color        \* the Color object under construction / constructed

vars == <<proc, ref, registered, self, drv, lastOp, lastCalls,
          hist, color>>

----------------------------------------------------------------------------
(* Bounds of the model *)

MaxNum == 2          \* largest pixel count given to the constructor
MaxColor == 1        \* packed colors handed to set_color are 0..MaxColor
MaxCalls == 3        \* the driver's call counters saturate here

Min(a, b) == IF a < b THEN a ELSE b
Max(a, b) == IF a < b THEN b ELSE a

----------------------------------------------------------------------------
(* Color: Python's unbounded ints as bit sequences, least significant     *)
(* bit first, without leading zeros.                                       *)

ChannelBits == 8

RECURSIVE Bits(_)
Bits(n) == IF n = 0 THEN <<>> ELSE <<n % 2>> \o Bits(n \div 2)

RECURSIVE Trim(_)
Trim(x) == IF x = <<>> THEN <<>>
           ELSE IF x[Len(x)] = 0 THEN Trim(SubSeq(x, 1, Len(x) - 1))
           ELSE x

\* x << k
Shl(x, k) == IF x = <<>> THEN <<>> ELSE [i \in 1..k |-> 0] \o x

\* x | y
BitOr(x, y) ==
    Trim([i \in 1..Max(Len(x), Len(y)) |->
            IF (i <= Len(x) /\ x[i] = 1) \/ (i <= Len(y) /\ y[i] = 1)
            THEN 1 ELSE 0])

ColorValue_swapped(red, green, blue, white) ==
    BitOr(BitOr(BitOr(Shl(Bits(white), 24), Shl(Bits(red), 8)),
                Shl(Bits(green), 16)),
          Bits(blue))

\* Color.__init__: self.value = (white << 24) | (red << 16) | (green << 8) | blue
ColorValue(red, green, blue, white) ==
    BitOr(BitOr(BitOr(Shl(Bits(white), 24), Shl(Bits(red), 16)),
                Shl(Bits(green), 8)),
          Bits(blue))

ChannelMax == 255

\* the Color constructor is tried on every combination of these values, and
\* on every value 0..ChannelMax of one channel with the others at 0 or ChannelMax
ChannelSamples == {0, ChannelMax} \cup {2, 3, 16, 127, 128}

ColorArgs ==
    (ChannelSamples \X ChannelSamples \X ChannelSamples \X ChannelSamples)
    \cup { [i \in 1..4 |-> IF i = k THEN v ELSE e[i]] :
             k \in 1..4, v \in 0..ChannelMax,
             e \in {0, ChannelMax} \X {0, ChannelMax} \X {0, ChannelMax} \X {0, ChannelMax} }

NoColor == [red |-> 0, green |-> 0, blue |-> 0, white |-> 0,
            whiteGiven |-> FALSE, done |-> FALSE, value |-> <<>>]

----------------------------------------------------------------------------
(* The driver binding (module _rpi_ws281x, imported as ws)                *)

WS2811_SUCCESS == 0
Status == {0, -1, -2}

ws2811_get_return_t_str(resp) ==
    CASE resp = 0 -> "Success"
      [] resp = -1 -> "Generic failure"
      [] OTHER -> "Out of memory"

Chans == 0..1
ChanPtr(n) == IF n = 0 THEN "chan0" ELSE "chan1"
ChanIdx(p) == IF p = "chan0" THEN 0 ELSE 1
HandlePtrs == {"h1", "chan0", "chan1"}

ZeroChannel == [count |-> 0, gpionum |-> 0, invert |-> 0, brightness |-> 0,
                strip_type |-> 0]

NoDriver == [alloc |-> FALSE, freed |-> FALSE, inited |-> FALSE,
             initResp |-> 0, freq |-> 0, dmanum |-> 0,
             channel |-> [c \in Chans |-> ZeroChannel],
             leds |-> [c \in Chans |-> <<>>],
             finiCalls |-> 0, deleteCalls |-> 0]

new_ws2811_t(d) == [d EXCEPT !.alloc = TRUE]

channel_t_set(d, chan, field, v) ==
    [d EXCEPT !.channel[ChanIdx(chan)][field] = v]

ws2811_channel_t_count_get(d, chan) == d.channel[ChanIdx(chan)].count

ws2811_init(d, resp) ==
    [d EXCEPT !.inited = TRUE, !.initResp = resp,
              !.leds = IF resp = WS2811_SUCCESS
                       THEN [c \in Chans |-> [i \in 1..d.channel[c].count |-> 0]]
                       ELSE @]

ws2811_fini(d) ==
    [d EXCEPT !.finiCalls = Min(@ + 1, MaxCalls),
              !.leds = [c \in Chans |-> <<>>]]

delete_ws2811_t(d) ==
    [d EXCEPT !.alloc = FALSE, !.freed = TRUE,
              !.deleteCalls = Min(@ + 1, MaxCalls)]

ws2811_led_set(d, chan, n, v) ==
    IF n >= d.channel[ChanIdx(chan)].count THEN d
    ELSE [d EXCEPT !.leds[ChanIdx(chan)][n + 1] = v]

ws2811_led_get(d, chan, n) ==
    IF n >= d.channel[ChanIdx(chan)].count THEN -1
    ELSE d.leds[ChanIdx(chan)][n + 1]

\* one recorded call: the entry point, the pointer passed, and whether that
\* pointer referred to a structure delete_ws2811_t had already released
Call(fn, arg, d) ==
    [fn |-> fn, arg |-> arg, stale |-> (arg \in HandlePtrs /\ d.freed)]

----------------------------------------------------------------------------
(* Outcome records *)

NoErr == [prefix |-> "", code |-> 0, msg |-> ""]

\* what an operation did: how it ended ("ok", an exception class, or "crash"),
\* what it returned, the error raised, the driver status it received, the
\* ws.* calls it made, and the driver structure and attributes it left
Res(outcome, result, err, status, calls, d, s) ==
    [outcome |-> outcome, result |-> result, err |-> err, status |-> status,
     calls |-> calls, drv |-> d, self |-> s]

Op(op, args, colors, r) ==
    [op |-> op, args |-> args, colors |-> colors, outcome |-> r.outcome,
     result |-> r.result, err |-> r.err, status |-> r.status]

NoHist == [num |-> 0, channel |-> 0, showFailed |-> FALSE]

\* an object on which __init__ has assigned nothing yet
NoAttrs == <<>>

\* 'ws2811_xxx failed with code {0} ({1})'.format(resp, message)
RuntimeError(fn, resp) ==
    [prefix |-> fn \o " failed with code", code |-> resp,
     msg |-> ws2811_get_return_t_str(resp)]

----------------------------------------------------------------------------
(* Adafruit_NeoPixel *)

Attr(s, a) == s[a]
HasAttr(s, a) == a \in DOMAIN s

\* what passing None where the binding expects a structure pointer can do
NullArg == {"TypeError", "crash"}
\* what ws2811_fini can do on a structure whose ws2811_init failed
FiniOutcomes == {"return", "crash"}

\* __init__, "Initialize the channels to zero"
ZeroChannels(d) ==
    [d EXCEPT !.channel = [c \in Chans |-> [@[c] EXCEPT !.count = 0,
                                                      !.gpionum = 0,
                                                      !.invert = 0,
                                                      !.brightness = 0]]]

ZeroChannelsCalls(d) ==
    LET one(c) == << Call("ws2811_channel_get", "h1", d),
                     Call("ws2811_channel_t_count_set", ChanPtr(c), d),
                     Call("ws2811_channel_t_gpionum_set", ChanPtr(c), d),
                     Call("ws2811_channel_t_invert_set", ChanPtr(c), d),
                     Call("ws2811_channel_t_brightness_set", ChanPtr(c), d) >>
    IN one(0) \o one(1)

SetupChannel_first(d, chan, num, pin, invert, brightness, strip_type) ==
    channel_t_set(
     channel_t_set(
      channel_t_set(
       channel_t_set(
        channel_t_set(d, "chan0", "count", num),
        chan, "gpionum", pin),
       chan, "invert", IF ~invert THEN 0 ELSE 1),
      chan, "brightness", brightness),
     chan, "strip_type", strip_type)

\* __init__, "Initialize the channel in use"
SetupChannel(d, chan, num, pin, invert, brightness, strip_type) ==
    channel_t_set(
     channel_t_set(
      channel_t_set(
       channel_t_set(
        channel_t_set(d, chan, "count", num),
        chan, "gpionum", pin),
       chan, "invert", IF ~invert THEN 0 ELSE 1),
      chan, "brightness", brightness),
     chan, "strip_type", strip_type)

SetupChannelCalls(d, chan) ==
    << Call("ws2811_channel_get", "h1", d),
       Call("ws2811_channel_t_count_set", chan, d),
       Call("ws2811_channel_t_gpionum_set", chan, d),
       Call("ws2811_channel_t_invert_set", chan, d),
       Call("ws2811_channel_t_brightness_set", chan, d),
       Call("ws2811_channel_t_strip_type_set", chan, d) >>

\* __init__, "Initialize the controller"
SetupController(d, freq_hz, dma) == [d EXCEPT !.freq = freq_hz, !.dmanum = dma]

InitCheck_inverted(resp) ==
    IF resp = WS2811_SUCCESS THEN "RuntimeError" ELSE "ok"

\* __init__, "Initialize libary": the test on ws2811_init's return value
InitCheck(resp) ==
    IF resp # WS2811_SUCCESS THEN "RuntimeError" ELSE "ok"

\* the whole of __init__, ws2811_init returning resp
InitResult(num, pin, freq_hz, dma, invert, brightness, channel, strip_type, resp) ==
    LET d0 == new_ws2811_t(NoDriver)
        s1 == [_leds |-> "h1"]
        d1 == ZeroChannels(d0)
        chan == ChanPtr(channel)
        s2 == [_leds |-> "h1", _channel |-> chan]
        d2 == SetupChannel(d1, chan, num, pin, invert, brightness, strip_type)
        d3 == SetupController(d2, freq_hz, dma)
        d4 == ws2811_init(d3, resp)
        raised == InitCheck(resp) = "RuntimeError"
        calls == << Call("new_ws2811_t", "", d0) >>
                 \o ZeroChannelsCalls(d0)
                 \o SetupChannelCalls(d1, chan)
                 \o << Call("ws2811_t_freq_set", "h1", d2),
                       Call("ws2811_t_dmanum_set", "h1", d2),
                       Call("ws2811_init", "h1", d3) >>
                 \o IF raised
                    THEN << Call("ws2811_get_return_t_str", "", d4) >>
                    ELSE << >>
    IN Res(InitCheck(resp), <<>>,
           IF raised THEN RuntimeError("ws2811_init", resp) ELSE NoErr,
           resp, calls, d4, s2)

CleanupResult_noGuard(s, d, fo) ==
    LET d1 == ws2811_fini(d)
        d2 == delete_ws2811_t(d1)
    IN Res("ok", <<>>, NoErr, 0,
           << Call("ws2811_fini", Attr(s, "_leds"), d),
              Call("delete_ws2811_t", Attr(s, "_leds"), d1) >>,
           d2, [s EXCEPT !["_leds"] = "None", !["_channel"] = "None"])

CleanupResult_noReset(s, d, fo) ==
    IF Attr(s, "_leds") # "None"
    THEN LET d1 == ws2811_fini(d)
             d2 == delete_ws2811_t(d1)
         IN Res("ok", <<>>, NoErr, 0,
                << Call("ws2811_fini", Attr(s, "_leds"), d),
                   Call("delete_ws2811_t", Attr(s, "_leds"), d1) >>,
                d2, s)
    ELSE Res("ok", <<>>, NoErr, 0, <<>>, d, s)

CleanupResult_guardInverted(s, d, fo) ==
    IF Attr(s, "_leds") = "None"
    THEN LET d1 == ws2811_fini(d)
             d2 == delete_ws2811_t(d1)
         IN Res("ok", <<>>, NoErr, 0,
                << Call("ws2811_fini", Attr(s, "_leds"), d),
                   Call("delete_ws2811_t", Attr(s, "_leds"), d1) >>,
                d2, [s EXCEPT !["_leds"] = "None", !["_channel"] = "None"])
    ELSE Res("ok", <<>>, NoErr, 0, <<>>, d, s)

\* _cleanup; fo is what ws2811_fini does if ws2811_init had failed
CleanupResult(s, d, fo) ==
    IF Attr(s, "_leds") # "None"
    THEN LET d1 == ws2811_fini(d)
             d2 == delete_ws2811_t(d1)
         IN IF d.initResp # WS2811_SUCCESS /\ fo = "crash"
            THEN Res("crash", <<>>, NoErr, 0,
                     << Call("ws2811_fini", Attr(s, "_leds"), d) >>, d1, s)
            ELSE Res("ok", <<>>, NoErr, 0,
                     << Call("ws2811_fini", Attr(s, "_leds"), d),
                        Call("delete_ws2811_t", Attr(s, "_leds"), d1) >>,
                     d2, [s EXCEPT !["_leds"] = "None", !["_channel"] = "None"])
    ELSE Res("ok", <<>>, NoErr, 0, <<>>, d, s)

\* __del__; wsAlive is the test `ws is not None`
DelResult(s, d, wsAlive, fo) ==
    IF wsAlive THEN CleanupResult(s, d, fo)
    ELSE Res("ok", <<>>, NoErr, 0, <<>>, d, s)

ShowResult_retry(s, d, resp, na) ==
    IF Attr(s, "_leds") = "None"
    THEN Res(na, <<>>, NoErr, 0, << Call("ws2811_render", "None", d) >>, d, s)
    ELSE IF resp # WS2811_SUCCESS
         THEN Res("RuntimeError", <<>>, RuntimeError("ws2811_render", resp), resp,
                  << Call("ws2811_render", Attr(s, "_leds"), d),
                     Call("ws2811_render", Attr(s, "_leds"), d),
                     Call("ws2811_get_return_t_str", "", d) >>, d, s)
         ELSE Res("ok", <<>>, NoErr, resp,
                  << Call("ws2811_render", Attr(s, "_leds"), d) >>, d, s)

\* show, ws2811_render returning resp
ShowResult(s, d, resp, na) ==
    IF Attr(s, "_leds") = "None"
    THEN Res(na, <<>>, NoErr, 0, << Call("ws2811_render", "None", d) >>, d, s)
    ELSE IF resp # WS2811_SUCCESS
         THEN Res("RuntimeError", <<>>, RuntimeError("ws2811_render", resp), resp,
                  << Call("ws2811_render", Attr(s, "_leds"), d),
                     Call("ws2811_get_return_t_str", "", d) >>, d, s)
         ELSE Res("ok", <<>>, NoErr, resp,
                  << Call("ws2811_render", Attr(s, "_leds"), d) >>, d, s)

\* set_color(position, color), position a number
SetColorResult(s, d, position, c) ==
    IF ~HasAttr(s, "channel")
    THEN Res("AttributeError", <<>>, NoErr, 0, <<>>, d, s)
    ELSE Res("ok", <<>>, NoErr, 0,
             << Call("ws2811_led_set", Attr(s, "channel"), d) >>,
             ws2811_led_set(d, Attr(s, "channel"), position, c), s)

\* set_color(slice(start, stop), colors): self.size is looked up first, and
\* range() of the tuple that slice.indices returns is a TypeError
SetColorSliceResult(s, d, start, stop, colors) ==
    IF ~HasAttr(s, "size")
    THEN Res("AttributeError", <<>>, NoErr, 0, <<>>, d, s)
    ELSE Res("TypeError", <<>>, NoErr, 0, <<>>, d, s)

\* get_color(position), position a number
GetColorResult(s, d, position) ==
    IF ~HasAttr(s, "channel")
    THEN Res("AttributeError", <<>>, NoErr, 0, <<>>, d, s)
    ELSE Res("ok", << ws2811_led_get(d, Attr(s, "channel"), position) >>, NoErr, 0,
             << Call("ws2811_led_get", Attr(s, "channel"), d) >>, d, s)

\* get_color(slice(start, stop))
GetColorSliceResult(s, d, start, stop) ==
    IF ~HasAttr(s, "size")
    THEN Res("AttributeError", <<>>, NoErr, 0, <<>>, d, s)
    ELSE Res("TypeError", <<>>, NoErr, 0, <<>>, d, s)

\* set_brightness
SetBrightnessResult(s, d, brightness, na) ==
    IF Attr(s, "_channel") = "None"
    THEN Res(na, <<>>, NoErr, 0,
             << Call("ws2811_channel_t_brightness_set", "None", d) >>, d, s)
    ELSE Res("ok", <<>>, NoErr, 0,
             << Call("ws2811_channel_t_brightness_set", Attr(s, "_channel"), d) >>,
             channel_t_set(d, Attr(s, "_channel"), "brightness", brightness), s)

\* the pixel_count property
PixelCountResult(s, d, na) ==
    IF Attr(s, "_channel") = "None"
    THEN Res(na, <<>>, NoErr, 0,
             << Call("ws2811_channel_t_count_get", "None", d) >>, d, s)
    ELSE Res("ok", << ws2811_channel_t_count_get(d, Attr(s, "_channel")) >>, NoErr, 0,
             << Call("ws2811_channel_t_count_get", Attr(s, "_channel"), d) >>, d, s)

\* get_pixels
GetPixelsResult(s, d) ==
    IF ~HasAttr(s, "_led_data")
    THEN Res("AttributeError", <<>>, NoErr, 0, <<>>, d, s)
    ELSE Res("ok", <<>>, NoErr, 0, <<>>, d, s)

----------------------------------------------------------------------------
(* Inputs *)

DefaultFreq == 800000
DefaultDma == 5
DefaultBrightness == 255
DefaultWhite == 0
WS2811_STRIP_RGB == 1050624
Pins == {18}

Nums == 1..MaxNum
Brightnesses == {0, DefaultBrightness}
Colors == 0..MaxColor

RECURSIVE SeqsOfLen(_, _)
SeqsOfLen(S, n) ==
    IF n = 0 THEN { <<>> }
    ELSE { <<x>> \o t : x \in S, t \in SeqsOfLen(S, n - 1) }

----------------------------------------------------------------------------
(* The state machine *)

Init ==
    /\ proc = "running"
    /\ ref = FALSE
    /\ registered = FALSE
    /\ self = NoAttrs
    /\ drv = NoDriver
    /\ lastOp = Op("none", <<>>, <<>>, Res("ok", <<>>, NoErr, 0, <<>>, NoDriver, NoAttrs))
    /\ lastCalls = <<>>
    /\ hist = NoHist
    /\ color = NoColor

\* the caller can invoke a method of the controller
Callable == proc = "running" /\ ref

\* an operation of the controller ran and ended as r
Apply(op, args, colors, r) ==
    /\ self' = r.self
    /\ drv' = r.drv
    /\ lastOp' = Op(op, args, colors, r)
    /\ lastCalls' = r.calls
    /\ proc' = IF r.outcome = "crash" THEN "crashed" ELSE proc

\* strip = Adafruit_NeoPixel(num, pin, invert=..., brightness=..., channel=...)
Construct(num, pin, invert, brightness, channel, resp) ==
    /\ proc = "running"
    /\ ~HasAttr(self, "_leds")
    /\ LET r == InitResult(num, pin, DefaultFreq, DefaultDma, invert,
                           brightness, channel, WS2811_STRIP_RGB, resp)
       IN /\ Apply("__init__", <<num, channel>>, <<>>, r)
          /\ ref' = (r.outcome = "ok")
    /\ registered' = TRUE
    /\ hist' = [hist EXCEPT !.num = num, !.channel = channel]
    /\ UNCHANGED color

\* strip._cleanup()
Cleanup(fo) ==
    /\ Callable
    /\ Apply("_cleanup", <<>>, <<>>, CleanupResult(self, drv, fo))
    /\ UNCHANGED <<ref, registered, hist, color>>

\* __del__, called by the caller, or by the interpreter once the atexit
\* callbacks have run (only then can the module global ws be None)
Del(wsAlive, fo) ==
    /\ HasAttr(self, "_leds")
    /\ \/ Callable /\ wsAlive
       \/ proc = "exited"
    /\ Apply("__del__", <<>>, <<>>, DelResult(self, drv, wsAlive, fo))
    /\ UNCHANGED <<ref, registered, hist, color>>

\* normal interpreter exit: the atexit callbacks run
Exit(fo) ==
    /\ proc = "running"
    /\ LET r == IF registered THEN CleanupResult(self, drv, fo)
                ELSE Res("ok", <<>>, NoErr, 0, <<>>, drv, self)
       IN /\ self' = r.self
          /\ drv' = r.drv
          /\ lastOp' = Op("atexit", <<>>, <<>>, r)
          /\ lastCalls' = r.calls
          /\ proc' = IF r.outcome = "crash" THEN "crashed" ELSE "exited"
    /\ UNCHANGED <<ref, registered, hist, color>>

\* strip.show()
Show(resp, na) ==
    /\ Callable
    /\ LET r == ShowResult(self, drv, resp, na)
       IN /\ Apply("show", <<>>, <<>>, r)
          /\ hist' = [hist EXCEPT !.showFailed = (@ \/ r.outcome = "RuntimeError")]
    /\ UNCHANGED <<ref, registered, color>>

\* strip.set_color(position, c) and strip[position] = c
SetColor(via, position, c) ==
    /\ Callable
    /\ Apply(via, <<position>>, <<c>>, SetColorResult(self, drv, position, c))
    /\ UNCHANGED <<ref, registered, hist, color>>

\* strip.set_color(slice(start, stop), colors) and strip[start:stop] = colors
SetColorSlice(via, start, stop, colors) ==
    /\ Callable
    /\ start <= stop
    /\ Apply(via, <<start, stop>>, colors,
             SetColorSliceResult(self, drv, start, stop, colors))
    /\ UNCHANGED <<ref, registered, hist, color>>

\* strip.get_color(position) and strip[position]
GetColor(via, position) ==
    /\ Callable
    /\ Apply(via, <<position>>, <<>>, GetColorResult(self, drv, position))
    /\ UNCHANGED <<ref, registered, hist, color>>

\* strip.get_color(slice(start, stop)) and strip[start:stop]
GetColorSlice(via, start, stop) ==
    /\ Callable
    /\ start <= stop
    /\ Apply(via, <<start, stop>>, <<>>, GetColorSliceResult(self, drv, start, stop))
    /\ UNCHANGED <<ref, registered, hist, color>>

\* strip.set_brightness(brightness)
SetBrightness(brightness, na) ==
    /\ Callable
    /\ Apply("set_brightness", <<brightness>>, <<>>,
             SetBrightnessResult(self, drv, brightness, na))
    /\ UNCHANGED <<ref, registered, hist, color>>

\* strip.pixel_count
PixelCount(na) ==
    /\ Callable
    /\ Apply("pixel_count", <<>>, <<>>, PixelCountResult(self, drv, na))
    /\ UNCHANGED <<ref, registered, hist, color>>

\* strip.get_pixels()
GetPixels ==
    /\ Callable
    /\ Apply("get_pixels", <<>>, <<>>, GetPixelsResult(self, drv))
    /\ UNCHANGED <<ref, registered, hist, color>>

Next ==
    \/ \E num \in Nums, pin \in Pins, invert \in BOOLEAN,
          brightness \in Brightnesses, channel \in Chans, resp \in Status :
          Construct(num, pin, invert, brightness, channel, resp)
    \/ \E fo \in FiniOutcomes : Cleanup(fo)
    \/ \E wsAlive \in BOOLEAN, fo \in FiniOutcomes : Del(wsAlive, fo)
    \/ \E fo \in FiniOutcomes : Exit(fo)
    \/ \E resp \in Status, na \in NullArg : Show(resp, na)
    \/ \E via \in {"set_color", "__setitem__"}, position \in 0..(MaxNum - 1),
          c \in Colors : SetColor(via, position, c)
    \/ \E via \in {"set_color", "__setitem__"}, start \in 0..MaxNum,
          stop \in 0..MaxNum :
          \E colors \in SeqsOfLen(Colors, Max(stop - start, 0)) :
             SetColorSlice(via, start, stop, colors)
    \/ \E via \in {"get_color", "__getitem__"}, position \in 0..(MaxNum - 1) :
          GetColor(via, position)
    \/ \E via \in {"get_color", "__getitem__"}, start \in 0..MaxNum,
          stop \in 0..MaxNum :
          GetColorSlice(via, start, stop)
    \/ \E brightness \in Brightnesses, na \in NullArg :
          SetBrightness(brightness, na)
    \/ \E na \in NullArg : PixelCount(na)
    \/ GetPixels

Spec == Init /\ [][Next]_vars

----------------------------------------------------------------------------
(* Lifecycle *)

Constructed == HasAttr(self, "_leds")

\* Uninitialized -> Initialized -> TornDown; a controller whose __init__
\* raised is never handed to the caller and stays Uninitialized
State ==
    IF ~Constructed THEN "Uninitialized"
    ELSE IF Attr(self, "_leds") = "None" THEN "TornDown"
    ELSE IF ref THEN "Initialized"
    ELSE "Uninitialized"

TeardownOps == {"_cleanup", "__del__", "atexit"}
SetOps == {"set_color", "__setitem__"}
GetOps == {"get_color", "__getitem__"}

Fns(calls) == [i \in DOMAIN calls |-> calls[i].fn]
CountFn(calls, fn) == Cardinality({i \in DOMAIN calls : calls[i].fn = fn})

----------------------------------------------------------------------------
(* Color on its own: the arguments are drawn first, then __init__ packs *)

InitColor ==
    /\ proc = "running"
    /\ ref = FALSE
    /\ registered = FALSE
    /\ self = NoAttrs
    /\ drv = NoDriver
    /\ lastOp = Op("none", <<>>, <<>>, Res("ok", <<>>, NoErr, 0, <<>>, NoDriver, NoAttrs))
    /\ lastCalls = <<>>
    /\ hist = NoHist
    /\ \E a \in ColorArgs, given \in BOOLEAN :
          color = [red |-> a[1], green |-> a[2], blue |-> a[3],
                   white |-> IF given THEN a[4] ELSE DefaultWhite,
                   whiteGiven |-> given, done |-> FALSE, value |-> <<>>]

\* Color(red, green, blue[, white])
ColorInit ==
    /\ ~color.done
    /\ color' = [color EXCEPT !.done = TRUE,
                              !.value = ColorValue(color.red, color.green,
                                                   color.blue, color.white)]
    /\ UNCHANGED <<proc, ref, registered, self, drv, lastOp, lastCalls, hist>>

NextColor == ColorInit

SpecColor == InitColor /\ [][NextColor]_vars

----------------------------------------------------------------------------
(* Properties *)

\* C1: over any sequence of teardown triggers (_cleanup, __del__, the atexit
\* callback) ws2811_fini and delete_ws2811_t are each called at most once,
\* and a teardown that finds the handle already released calls nothing,
\* changes nothing in the driver and ends without an error.
C1_TeardownOnce ==
    /\ [](drv.finiCalls <= 1 /\ drv.deleteCalls <= 1)
    /\ [][(State = "TornDown" /\ lastOp'.op \in TeardownOps)
            => (lastCalls' = <<>> /\ drv' = drv /\ self' = self
                /\ lastOp'.outcome = "ok")]_vars

\* a second teardown ran on a controller that was already torn down
C1_Witness ==
    /\ State = "TornDown"
    /\ drv.finiCalls = 1 /\ drv.deleteCalls = 1
    /\ lastOp.op = "__del__"
    /\ lastCalls = <<>>

\* C2: no ws.* call of any operation passes the handle or a channel of a
\* structure that teardown has released.
C2_NoUseAfterTeardown ==
    \A i \in DOMAIN lastCalls : ~lastCalls[i].stale

\* show() was called on a torn-down controller
C2_Witness ==
    /\ State = "TornDown"
    /\ drv.freed
    /\ lastOp.op = "show"
    /\ Len(lastCalls) = 1

\* C3: when the process of a successfully constructed controller exits
\* normally, the handle is released by the end of the atexit processing: the
\* callback finalizes and deletes it if no teardown ran before, and calls
\* nothing if one did.
C3_ExitTearsDown ==
    [][(proc = "running" /\ ref /\ proc' = "exited")
        => /\ State' = "TornDown"
           /\ drv'.freed /\ drv'.finiCalls = 1 /\ drv'.deleteCalls = 1
           /\ IF State = "TornDown"
              THEN lastCalls' = <<>> /\ drv' = drv
              ELSE Fns(lastCalls') = <<"ws2811_fini", "delete_ws2811_t">>]_vars

\* the atexit callback released the handle of a controller never torn down
C3_Witness ==
    /\ proc = "exited" /\ ref
    /\ lastOp.op = "atexit"
    /\ Fns(lastCalls) = <<"ws2811_fini", "delete_ws2811_t">>

\* C4: when ws2811_init returns a non-success status, __init__ raises an
\* error carrying that status and the driver's message for it and the
\* controller never becomes Initialized; on success __init__ raises nothing.
C4_InitError ==
    /\ (Constructed /\ drv.initResp # WS2811_SUCCESS) => State # "Initialized"
    /\ lastOp.op = "__init__" =>
          IF lastOp.status # WS2811_SUCCESS
          THEN /\ lastOp.outcome = "RuntimeError"
               /\ lastOp.err.prefix = "ws2811_init failed with code"
               /\ lastOp.err.code = lastOp.status
               /\ lastOp.err.msg = ws2811_get_return_t_str(lastOp.status)
               /\ lastOp.status = drv.initResp
          ELSE lastOp.outcome = "ok" /\ State = "Initialized"

\* construction failed with status -2
C4_Witness ==
    /\ lastOp.op = "__init__"
    /\ lastOp.status = -2
    /\ lastOp.outcome = "RuntimeError"

\* C5: a show() on an Initialized controller calls ws2811_render exactly
\* once, raises an error carrying the status exactly when that status is not
\* success, whatever earlier calls did, and leaves the controller
\* Initialized with its attributes and the driver structure unchanged.
C5_ShowOnce ==
    [][(State = "Initialized" /\ proc = "running" /\ lastOp'.op = "show")
        => /\ CountFn(lastCalls', "ws2811_render") = 1
           /\ lastCalls'[1] = Call("ws2811_render", "h1", drv)
           /\ IF lastOp'.status # WS2811_SUCCESS
              THEN /\ lastOp'.outcome = "RuntimeError"
                   /\ lastOp'.err.prefix = "ws2811_render failed with code"
                   /\ lastOp'.err.code = lastOp'.status
                   /\ lastOp'.err.msg = ws2811_get_return_t_str(lastOp'.status)
              ELSE lastOp'.outcome = "ok"
           /\ self' = self /\ drv' = drv
           /\ State' = "Initialized"]_vars

\* a show() succeeded after an earlier show() had failed
C5_Witness ==
    /\ State = "Initialized"
    /\ hist.showFailed
    /\ lastOp.op = "show"
    /\ lastOp.outcome = "ok"

\* C6 as stated: after set_color(i, C) with i < pixel_count on an Initialized
\* controller, the call has succeeded and get_color(i) returns C.
C6_SetThenGet ==
    (/\ lastOp.op \in SetOps /\ Len(lastOp.args) = 1
     /\ State = "Initialized" /\ lastOp.args[1] < hist.num)
    => /\ lastOp.outcome = "ok"
       /\ GetColorResult(self, drv, lastOp.args[1]).outcome = "ok"
       /\ GetColorResult(self, drv, lastOp.args[1]).result = lastOp.colors

\* C7 as stated: after a range set over [a, b) with b - a colors on an
\* Initialized controller, index a + k holds the k-th color and the range
\* get over [a, b) returns the colors in that order.
C7_RangeSet ==
    (/\ lastOp.op \in SetOps /\ Len(lastOp.args) = 2
     /\ State = "Initialized" /\ lastOp.args[2] <= hist.num)
    => /\ lastOp.outcome = "ok"
       /\ \A k \in 1..Len(lastOp.colors) :
             drv.leds[hist.channel][lastOp.args[1] + k] = lastOp.colors[k]
       /\ GetColorSliceResult(self, drv, lastOp.args[1], lastOp.args[2]).outcome = "ok"
       /\ GetColorSliceResult(self, drv, lastOp.args[1], lastOp.args[2]).result
            = lastOp.colors

\* C8: in every Initialized state after construction with N pixels on
\* channel 0 or 1, pixel_count evaluates to N, and an access to it reads the
\* count with one ws2811_channel_t_count_get call on the active channel.
C8_PixelCount ==
    State = "Initialized" =>
       /\ PixelCountResult(self, drv, "TypeError").outcome = "ok"
       /\ PixelCountResult(self, drv, "TypeError").result = << hist.num >>
       /\ lastOp.op = "pixel_count" =>
             /\ lastOp.result = << hist.num >>
             /\ lastCalls = << Call("ws2811_channel_t_count_get",
                                    ChanPtr(hist.channel), drv) >>

\* pixel_count was read on a two-pixel controller built on channel 1
C8_Witness ==
    /\ State = "Initialized"
    /\ hist.channel = 1 /\ hist.num = 2
    /\ lastOp.op = "pixel_count"
    /\ lastOp.result = <<2>>

BitAt(x, i) == IF i <= Len(x) THEN x[i] ELSE 0

\* the number held in bits lo .. lo+n-1 of x
RECURSIVE FieldVal(_, _, _)
FieldVal(x, lo, n) ==
    IF n = 0 THEN 0 ELSE BitAt(x, lo + 1) + 2 * FieldVal(x, lo + 1, n - 1)

\* C9: for channels in 0..255 the packed value fits in 32 bits, holds white,
\* red, green and blue in bits 24-31, 16-23, 8-15 and 0-7, so that it is
\* white*2^24 + red*2^16 + green*2^8 + blue; white defaults to 0 and
\* (255, 0, 0) packs to 0x00FF0000.
C9_ColorPacking ==
    color.done =>
       /\ Len(color.value) <= 4 * ChannelBits
       /\ FieldVal(color.value, 3 * ChannelBits, ChannelBits) = color.white
       /\ FieldVal(color.value, 2 * ChannelBits, ChannelBits) = color.red
       /\ FieldVal(color.value, ChannelBits, ChannelBits) = color.green
       /\ FieldVal(color.value, 0, ChannelBits) = color.blue
       /\ FieldVal(color.value, 2 * ChannelBits, 2 * ChannelBits)
            = color.white * 256 + color.red
       /\ FieldVal(color.value, 0, 2 * ChannelBits)
            = color.green * 256 + color.blue
       /\ ~color.whiteGiven => FieldVal(color.value, 3 * ChannelBits, ChannelBits) = 0
       /\ (color.red = 255 /\ color.green = 0 /\ color.blue = 0 /\ color.white = 0)
            => color.value = Bits(16711680)

\* Color(255, 0, 0) was packed
C9_Witness ==
    /\ color.done /\ ~color.whiteGiven
    /\ color.red = 255 /\ color.green = 0 /\ color.blue = 0
    /\ color.value = Bits(16711680)

\* C10 as stated: ws2811_fini is only ever called on a structure for which
\* ws2811_init returned success.
C10_FiniOnlyAfterInitSuccess ==
    \A i \in DOMAIN lastCalls :
       lastCalls[i].fn = "ws2811_fini" => drv.initResp = WS2811_SUCCESS

====
